---------------------------- MODULE Spec2Model ----------------------------
(***************************************************************************)
(* MiniChess (src/MiniChessSkeletonCode.py): a 5x5 chess variant with a    *)
(* game loop (play), a pseudo-legal move generator (valid_moves), a move   *)
(* applicator (make_move), three evaluators (e0, e1, e2) and a depth-      *)
(* limited minimax search with optional alpha-beta pruning.                *)
(*                                                                         *)
(* The state is the MiniChess object: current_game_state (the dictionary   *)
(* of init_board), the parameters of set_parameters and the statistics of  *)
(* set_stats, plus the locals of play that outlive one loop iteration.     *)
(* One action is one iteration of the loop of play.                        *)
(***************************************************************************)
EXTENDS Integers, Sequences, FiniteSets

VARIABLES
    current_game_state,         \* self.current_game_state
    max_turns,                  \* self.max_turns
    white_ai,                   \* self.white_ai
    black_ai,                   \* self.black_ai
    timeout,                    \* self.timeout (None without an AI)
    alphabeta,                  \* self.alphabeta
    heuristic,                  \* self.heuristic, by name: "e0", "e1", "e2"
    depth,                      \* self.depth
    states_visited_per_depth,   \* self.states_visited_per_depth
    non_leaf_nodes,             \* self.non_leaf_nodes
    total_nodes,                \* self.total_nodes
    minimax_score,              \* play: minimax_score of the last search
    move,                       \* play: the move of the last iteration
    pc,                         \* play: "loop", "over" (loop left), "crashed"
    plies,                      \* history: make_move calls since init_board
    steps,                      \* history: loop iterations since Init
    previous_game_state,        \* history: the state the last move was made in
    in_time,                    \* clock: calls of the last search made in time
    typed,                      \* the text of a move: printed, or read by input()
    parsed                      \* what parse_input returned for typed

vars == <<current_game_state, max_turns, white_ai, black_ai, timeout,
          alphabeta, heuristic, depth, states_visited_per_depth,
          non_leaf_nodes, total_nodes, minimax_score, move, pc, plies, steps,
          previous_game_state, in_time, typed, parsed>>

(***************************************************************************)
(* Bounds of the model.                                                    *)
(***************************************************************************)
\* Loop iterations explored after the starting position.
MaxSteps == 2
\* max_turns ranges over the turn of the starting position and the next
\* TurnSlack turns.
TurnSlack == 1
\* The search depths an AI game is configured with: 0..MaxDepth.
MaxDepth == 2
\* A search cut off by the clock makes 0 or FewCalls calls in time.
FewCalls == 2

(***************************************************************************)
(* Python values.                                                          *)
(***************************************************************************)
\* None; the empty tuple, so that it compares with a move.
None == <<>>
\* math.inf: an integer above every value an evaluator returns
\* (|material| <= 1032, |king safety| <= 999, |centre| <= 9).
inf == 1000000

Max2(a, b) == IF a >= b THEN a ELSE b
Min2(a, b) == IF a <= b THEN a ELSE b

RECURSIVE Flatten(_)
\* The concatenation of a sequence of sequences, in order.
Flatten(ss) == IF ss = <<>> THEN <<>> ELSE Head(ss) \o Flatten(Tail(ss))

Range(s) == {s[i] : i \in 1..Len(s)}

(***************************************************************************)
(* Board Model.                                                            *)
(***************************************************************************)
WhitePieces == {"wp", "wN", "wB", "wQ", "wK"}
BlackPieces == {"bp", "bN", "bB", "bQ", "bK"}

\* The first and second characters of the tokens of a board.
FirstCharacter ==
    [token \in WhitePieces \cup BlackPieces \cup {"."} |->
        IF token \in WhitePieces THEN "w"
        ELSE IF token \in BlackPieces THEN "b" ELSE "."]
SecondCharacter ==
    [token \in WhitePieces \cup BlackPieces |->
        CASE token \in {"wp", "bp"} -> "p"
          [] token \in {"wN", "bN"} -> "N"
          [] token \in {"wB", "bB"} -> "B"
          [] token \in {"wQ", "bQ"} -> "Q"
          [] token \in {"wK", "bK"} -> "K"]

\* piece[0]: 'w', 'b' or '.'
Colour(piece) == FirstCharacter[piece]

\* piece[1], read only of a piece
Kind(piece) == SecondCharacter[piece]

\* game_state["turn"][0]
TurnInitial(turn) == IF turn = "white" THEN "w" ELSE "b"

\* A list of rows as a board indexed from 0.
Grid(rows) == [r \in 0..4 |-> [c \in 0..4 |-> rows[r + 1][c + 1]]]

init_board ==
    [board |-> Grid(<< <<"bK", "bQ", "bB", "bN", ".">>,
                       <<".",  ".",  "bp", "bp", ".">>,
                       <<".",  ".",  ".",  ".",  ".">>,
                       <<".",  "wp", "wp", ".",  ".">>,
                       <<".",  "wN", "wB", "wQ", "wK">> >>),
     turn |-> "white",
     game_over_reason |-> "",
     turn_number |-> 1,
     turns_without_capture |-> 0,
     turn_no_capture |-> FALSE]

is_valid_coordinate(coordinate) ==
    /\ -1 < coordinate[1] /\ coordinate[1] < 5
    /\ -1 < coordinate[2] /\ coordinate[2] < 5

(***************************************************************************)
(* Move Generator.                                                         *)
(***************************************************************************)
(* Move notation.  A string is the tuple of its characters.                *)
(***************************************************************************)
UpperCase == <<"A", "B", "C", "D", "E">>
LowerCase == <<"a", "b", "c", "d", "e">>
Digits == <<"0", "1", "2", "3", "4", "5", "6", "7", "8", "9">>

\* The place of a character in a tuple that holds it.
IndexOf(characters, ch) ==
    CHOOSE i \in 1..Len(characters) : characters[i] = ch

\* ord(ch) for the letters A-E and a-e, the digits and the blank.
ord(ch) ==
    IF ch \in Range(UpperCase) THEN 64 + IndexOf(UpperCase, ch)
    ELSE IF ch \in Range(LowerCase) THEN 96 + IndexOf(LowerCase, ch)
    ELSE IF ch \in Range(Digits) THEN 47 + IndexOf(Digits, ch)
    ELSE 32

\* ch.upper()
upper(ch) ==
    IF ch \in Range(LowerCase) THEN UpperCase[IndexOf(LowerCase, ch)] ELSE ch

\* f'{n}' for a number of one digit.
str(n) == Digits[n + 1]

column_translation == [c \in 0..4 |-> UpperCase[c + 1]]

\* Line 111.
get_readable_move(m) ==
    << column_translation[m[1][2]], str(5 - m[1][1]), " ",
       column_translation[m[2][2]], str(5 - m[2][1]) >>

RECURSIVE split(_, _, _)
\* text.split() from the i-th character on, word being the word begun.
split(text, i, word) ==
    IF i > Len(text)
    THEN IF word = <<>> THEN <<>> ELSE <<word>>
    ELSE IF text[i] = " "
    THEN (IF word = <<>> THEN <<>> ELSE <<word>>) \o split(text, i + 1, <<>>)
    ELSE split(text, i + 1, Append(word, text[i]))

\* parse_square with the rank taken for the row.
parse_square_unflipped(word) ==
    IF Len(word) < 2 \/ word[2] \notin Range(Digits) THEN None
    ELSE << IndexOf(Digits, word[2]) - 1 - 1,
            ord(upper(word[1])) - ord("A") >>

\* The tuple of line 245 or 246 for one square; None when int() or the
\* indexing raises.
parse_square(word) ==
    IF Len(word) < 2 \/ word[2] \notin Range(Digits) THEN None
    ELSE << 5 - (IndexOf(Digits, word[2]) - 1),
            ord(upper(word[1])) - ord("A") >>

\* Lines 243-249: None when the text is not two words or a square raises.
parse_input(text) ==
    LET words == split(text, 1, <<>>)
    IN  IF Len(words) # 2 THEN None
        ELSE IF parse_square(words[1]) = None \/ parse_square(words[2]) = None
        THEN None
        ELSE <<parse_square(words[1]), parse_square(words[2])>>

(***************************************************************************)
KnightDirections ==
    << <<-1, -2>>, <<-1, 2>>, <<1, -2>>, <<1, 2>>,
       <<-2, -1>>, <<-2, 1>>, <<2, -1>>, <<2, 1>> >>
BishopDirections == << <<-1, -1>>, <<-1, 1>>, <<1, -1>>, <<1, 1>> >>
QueenDirections ==
    << <<-1, -1>>, <<-1, 0>>, <<-1, 1>>, <<0, -1>>,
       <<0, 1>>, <<1, -1>>, <<1, 0>>, <<1, 1>> >>
KingDirections == QueenDirections

\* The pawn branch of valid_moves: forward, then the diagonals -1, +1.
PawnMoves(game_state, row_index, col_index) ==
    LET board == game_state.board
        end_row == IF game_state.turn = "white" THEN row_index - 1
                   ELSE row_index + 1
        forward ==
            IF /\ is_valid_coordinate(<<end_row, col_index>>)
               /\ board[end_row][col_index] = "."
            THEN << <<<<row_index, col_index>>, <<end_row, col_index>>>> >>
            ELSE <<>>
        diagonal(column_direction) ==
            LET diagonal_column == col_index + column_direction
            IN  IF /\ is_valid_coordinate(<<end_row, diagonal_column>>)
                   /\ board[end_row][diagonal_column] # "."
                   /\ Colour(board[end_row][diagonal_column])
                        # TurnInitial(game_state.turn)
                THEN << <<<<row_index, col_index>>,
                          <<end_row, diagonal_column>>>> >>
                ELSE <<>>
    IN  forward \o diagonal(-1) \o diagonal(1)

\* The knight and king branches: the offsets, in order, that land on the
\* board on a square not held by the side to move.
\* StepMoves with the test of the colour of the destination dropped: a
\* knight or king may land on a piece of its own side.
StepMoves_onto_own(game_state, row_index, col_index, directions) ==
    LET one(d) ==
            IF is_valid_coordinate(<<row_index + d[1], col_index + d[2]>>)
            THEN << <<<<row_index, col_index>>,
                      <<row_index + d[1], col_index + d[2]>>>> >>
            ELSE <<>>
    IN  Flatten([i \in 1..Len(directions) |-> one(directions[i])])

StepMoves(game_state, row_index, col_index, directions) ==
    LET board == game_state.board
        one(d) ==
            IF /\ is_valid_coordinate(<<row_index + d[1], col_index + d[2]>>)
               /\ Colour(board[row_index + d[1]][col_index + d[2]])
                    # TurnInitial(game_state.turn)
            THEN << <<<<row_index, col_index>>,
                      <<row_index + d[1], col_index + d[2]>>>> >>
            ELSE <<>>
    IN  Flatten([i \in 1..Len(directions) |-> one(directions[i])])

RECURSIVE RayThroughCapture(_, _, _, _, _, _)
\* Ray without the break of lines 159-160: the ray runs on past a capture.
RayThroughCapture(game_state, row_index, col_index, end_row, end_column, direction) ==
    IF /\ is_valid_coordinate(<<end_row, end_column>>)
       /\ Colour(game_state.board[end_row][end_column])
            # TurnInitial(game_state.turn)
    THEN << <<<<row_index, col_index>>, <<end_row, end_column>>>> >>
         \o RayThroughCapture(game_state, row_index, col_index,
                              end_row + direction[1],
                              end_column + direction[2], direction)
    ELSE <<>>

RECURSIVE Ray(_, _, _, _, _, _)
\* The while loop of the bishop and queen branches, from (end_row, end_column).
Ray(game_state, row_index, col_index, end_row, end_column, direction) ==
    IF /\ is_valid_coordinate(<<end_row, end_column>>)
       /\ Colour(game_state.board[end_row][end_column])
            # TurnInitial(game_state.turn)
    THEN << <<<<row_index, col_index>>, <<end_row, end_column>>>> >>
         \o (IF game_state.board[end_row][end_column] # "."
             THEN <<>>
             ELSE Ray(game_state, row_index, col_index,
                      end_row + direction[1], end_column + direction[2],
                      direction))
    ELSE <<>>

\* The bishop and queen branches: one ray per unit direction, in order.
SlideMoves(game_state, row_index, col_index, unit_directions) ==
    Flatten([i \in 1..Len(unit_directions) |->
                Ray(game_state, row_index, col_index,
                    row_index + unit_directions[i][1],
                    col_index + unit_directions[i][2],
                    unit_directions[i])])

\* The body of the two for loops of valid_moves for one square.
SquareMoves(game_state, row_index, col_index) ==
    LET piece == game_state.board[row_index][col_index]
    IN  IF Colour(piece) # TurnInitial(game_state.turn) THEN <<>>
        ELSE CASE Kind(piece) = "p" ->
                    PawnMoves(game_state, row_index, col_index)
               [] Kind(piece) = "N" ->
                    StepMoves(game_state, row_index, col_index,
                              KnightDirections)
               [] Kind(piece) = "B" ->
                    SlideMoves(game_state, row_index, col_index,
                               BishopDirections)
               [] Kind(piece) = "Q" ->
                    SlideMoves(game_state, row_index, col_index,
                               QueenDirections)
               [] Kind(piece) = "K" ->
                    StepMoves(game_state, row_index, col_index,
                              KingDirections)

\* The list of moves, squares taken row by row.
valid_moves(game_state) ==
    Flatten([i \in 1..25 |->
                SquareMoves(game_state, (i - 1) \div 5, (i - 1) % 5)])

is_valid_move(game_state, m) == m \in Range(valid_moves(game_state))

(***************************************************************************)
(* Move Applicator.                                                        *)
(***************************************************************************)
\* placed_piece with the black promotion row mistaken for white's.
placed_piece_row0(piece, end_row) ==
    IF piece = "wp" /\ end_row = 0 THEN "wQ"
    ELSE IF piece = "bp" /\ end_row = 0 THEN "bQ"
    ELSE piece

\* placed_piece with lines 204-207 dropped: a pawn stays a pawn on the last
\* row.
placed_piece_unpromoted(piece, end_row) == piece

\* Lines 204-207: what stands on the destination after the move.
placed_piece(piece, end_row) ==
    IF piece = "wp" /\ end_row = 0 THEN "wQ"
    ELSE IF piece = "bp" /\ end_row = 4 THEN "bQ"
    ELSE piece

\* capture_bookkeeping with line 219 dropped: every black move without a
\* capture counts.
capture_bookkeeping_unflagged(game_state, piece, end_piece) ==
    IF Colour(piece) = "w"
    THEN IF end_piece = "."
         THEN [turn_no_capture |-> TRUE,
               turns_without_capture |-> game_state.turns_without_capture]
         ELSE [turn_no_capture |-> FALSE, turns_without_capture |-> 0]
    ELSE IF end_piece # "."
    THEN [turn_no_capture |-> FALSE, turns_without_capture |-> 0]
    ELSE [turn_no_capture |-> game_state.turn_no_capture,
          turns_without_capture |-> game_state.turns_without_capture + 1]

\* Lines 208-220: turn_no_capture and turns_without_capture after the move.
capture_bookkeeping(game_state, piece, end_piece) ==
    IF Colour(piece) = "w"
    THEN IF end_piece = "."
         THEN [turn_no_capture |-> TRUE,
               turns_without_capture |-> game_state.turns_without_capture]
         ELSE [turn_no_capture |-> FALSE, turns_without_capture |-> 0]
    ELSE IF Colour(piece) = "b"
    THEN IF end_piece # "."
         THEN [turn_no_capture |-> FALSE, turns_without_capture |-> 0]
         ELSE IF game_state.turn_no_capture
         THEN [turn_no_capture |-> game_state.turn_no_capture,
               turns_without_capture |->
                   game_state.turns_without_capture + 1]
         ELSE [turn_no_capture |-> game_state.turn_no_capture,
               turns_without_capture |-> game_state.turns_without_capture]
    ELSE [turn_no_capture |-> game_state.turn_no_capture,
          turns_without_capture |-> game_state.turns_without_capture]

\* terminal_reason with 'wK' missing from the list of line 221.
terminal_reason_black_king_only(maxTurns, game_state, piece, end_piece) ==
    IF end_piece \in {"bK"} THEN "king captured"
    ELSE IF game_state.turn_number = maxTurns /\ Colour(piece) = "b"
    THEN "max turns"
    ELSE IF game_state.turns_without_capture = 10 THEN "no captures"
    ELSE ""

\* terminal_reason with the checks of lines 224 and 227 in the other order.
terminal_reason_draw_first(maxTurns, game_state, piece, end_piece) ==
    IF end_piece \in {"bK", "wK"} THEN "king captured"
    ELSE IF game_state.turns_without_capture = 10 THEN "no captures"
    ELSE IF game_state.turn_number = maxTurns /\ Colour(piece) = "b"
    THEN "max turns"
    ELSE ""

\* terminal_reason without the check of lines 227-229.
terminal_reason_no_draw(maxTurns, game_state, piece, end_piece) ==
    IF end_piece \in {"bK", "wK"} THEN "king captured"
    ELSE IF game_state.turn_number = maxTurns /\ Colour(piece) = "b"
    THEN "max turns"
    ELSE ""

\* terminal_reason with the turn limit applied to either mover.
terminal_reason_any_mover(maxTurns, game_state, piece, end_piece) ==
    IF end_piece \in {"bK", "wK"} THEN "king captured"
    ELSE IF game_state.turn_number = maxTurns THEN "max turns"
    ELSE IF game_state.turns_without_capture = 10 THEN "no captures"
    ELSE ""

\* Lines 221-229: the reason the move ends the game with, '' when it does
\* not; game_state is the state with the bookkeeping done.
terminal_reason(maxTurns, game_state, piece, end_piece) ==
    IF end_piece \in {"bK", "wK"} THEN "king captured"
    ELSE IF game_state.turn_number = maxTurns /\ Colour(piece) = "b"
    THEN "max turns"
    ELSE IF game_state.turns_without_capture = 10 THEN "no captures"
    ELSE ""

\* pass_turn counting every move as a turn.
pass_turn_every_ply(game_state, piece) ==
    [game_state EXCEPT
        !.turn_number = game_state.turn_number + 1,
        !.turn = IF game_state.turn = "white" THEN "black" ELSE "white"]

\* Lines 230-231: the turn passes to the other side.
pass_turn(game_state, piece) ==
    [game_state EXCEPT
        !.turn_number = IF Colour(piece) = "b"
                        THEN game_state.turn_number + 1
                        ELSE game_state.turn_number,
        !.turn = IF game_state.turn = "white" THEN "black" ELSE "white"]

\* make_move without the returns of lines 223, 226 and 229: the turn passes
\* even when the move ends the game.
make_move_no_return(maxTurns, game_state, m) ==
    LET piece == game_state.board[m[1][1]][m[1][2]]
        end_piece == game_state.board[m[2][1]][m[2][2]]
        cleared == [game_state.board EXCEPT ![m[1][1]][m[1][2]] = "."]
        board == [cleared EXCEPT
                    ![m[2][1]][m[2][2]] = placed_piece(piece, m[2][1])]
        kept == capture_bookkeeping(game_state, piece, end_piece)
        counted == [game_state EXCEPT
                      !.board = board,
                      !.turn_no_capture = kept.turn_no_capture,
                      !.turns_without_capture = kept.turns_without_capture]
        reason == terminal_reason(maxTurns, counted, piece, end_piece)
    IN  pass_turn([counted EXCEPT !.game_over_reason = reason], piece)

\* make_move with self.max_turns = maxTurns: the state it returns (and, in
\* the code, has mutated).
make_move(maxTurns, game_state, m) ==
    LET start_row == m[1][1]
        start_col == m[1][2]
        end_row == m[2][1]
        end_col == m[2][2]
        piece == game_state.board[start_row][start_col]
        end_piece == game_state.board[end_row][end_col]
        cleared == [game_state.board EXCEPT ![start_row][start_col] = "."]
        board == [cleared EXCEPT
                    ![end_row][end_col] = placed_piece(piece, end_row)]
        kept == capture_bookkeeping(game_state, piece, end_piece)
        counted == [game_state EXCEPT
                      !.board = board,
                      !.turn_no_capture = kept.turn_no_capture,
                      !.turns_without_capture = kept.turns_without_capture]
        reason == terminal_reason(maxTurns, counted, piece, end_piece)
    IN  IF reason # ""
        THEN [counted EXCEPT !.game_over_reason = reason]
        ELSE pass_turn(counted, piece)

(***************************************************************************)
(* Evaluation Functions.                                                   *)
(***************************************************************************)
\* The piece at the i-th square, rows first.
Nth(board, i) == board[(i - 1) \div 5][(i - 1) % 5]

piece_values == [p |-> 1, B |-> 3, N |-> 3, Q |-> 9, K |-> 999]

RECURSIVE material_from(_, _, _, _)
\* The loops of lines 434-439 from the i-th square on.
material_from(board, i, white_score, black_score) ==
    IF i > 25 THEN white_score - black_score
    ELSE IF Colour(Nth(board, i)) = "w"
    THEN material_from(board, i + 1,
                       white_score + piece_values[Kind(Nth(board, i))],
                       black_score)
    ELSE IF Colour(Nth(board, i)) = "b"
    THEN material_from(board, i + 1, white_score,
                       black_score + piece_values[Kind(Nth(board, i))])
    ELSE material_from(board, i + 1, white_score, black_score)

material_score(game_state) == material_from(game_state.board, 1, 0, 0)

\* king_safety_score with forward_row the row of the king itself.
king_safety_score_from_own_row(game_state, turn) ==
    LET king == IF turn = "white" THEN "wK" ELSE "bK"
        found == {i \in 1..25 : Nth(game_state.board, i) = king}
        \* the loops run to the end: the last king found stays
        last == CHOOSE i \in found : \A j \in found : j <= i
        king_coordinate == <<(last - 1) \div 5, (last - 1) % 5>>
        own == TurnInitial(turn)
        \* range(forward_row, -1, -1) and range(forward_row, 5, 1)
        rows == IF turn = "white" THEN 0..king_coordinate[1]
                ELSE king_coordinate[1]..4
        forward_pieces ==
            Cardinality({sq \in rows \X (0..4) :
                            Colour(game_state.board[sq[1]][sq[2]]) = own})
    IN  IF found = {} THEN -999
        ELSE IF /\ game_state.turn # turn
                /\ \E m \in Range(valid_moves(game_state)) :
                      m[2] = king_coordinate
        THEN -999
        ELSE 4 * forward_pieces - 10

\* Lines 394-422.
king_safety_score(game_state, turn) ==
    LET king == IF turn = "white" THEN "wK" ELSE "bK"
        found == {i \in 1..25 : Nth(game_state.board, i) = king}
        \* the loops run to the end: the last king found stays
        last == CHOOSE i \in found : \A j \in found : j <= i
        king_coordinate == <<(last - 1) \div 5, (last - 1) % 5>>
        own == TurnInitial(turn)
        \* range(forward_row, -1, -1) and range(forward_row, 5, 1)
        rows == IF turn = "white" THEN 0..(king_coordinate[1] - 1)
                ELSE (king_coordinate[1] + 1)..4
        forward_pieces ==
            Cardinality({sq \in rows \X (0..4) :
                            Colour(game_state.board[sq[1]][sq[2]]) = own})
    IN  IF found = {} THEN -999
        ELSE IF /\ game_state.turn # turn
                /\ \E m \in Range(valid_moves(game_state)) :
                      m[2] = king_coordinate
        THEN -999
        ELSE 4 * forward_pieces - 10

\* e0 re-signed for the perspective, as e1 and e2 are.
e0_signed(game_state, turn) ==
    IF turn = "white" THEN material_score(game_state)
    ELSE -material_score(game_state)

\* Lines 443-444; the second argument is not used.
e0(game_state, turn) == material_score(game_state)

e1(game_state, turn) ==
    king_safety_score(game_state, turn)
    + (IF turn = "white" THEN material_score(game_state)
       ELSE -material_score(game_state))

e2(game_state, turn) ==
    LET centre == {i \in 1..25 : /\ (i - 1) \div 5 \in 1..3
                                 /\ (i - 1) % 5 \in 1..3}
        w_center_pieces ==
            Cardinality({i \in centre :
                            Colour(Nth(game_state.board, i)) = "w"})
        b_center_pieces ==
            Cardinality({i \in centre :
                            Colour(Nth(game_state.board, i)) = "b"})
    IN  IF turn = "white" THEN w_center_pieces - b_center_pieces
        ELSE b_center_pieces - w_center_pieces

\* self.heuristic(game_state, turn), the evaluator select_heuristic chose.
heuristic_value(name, game_state, turn) ==
    IF name = "e1" THEN e1(game_state, turn)
    ELSE IF name = "e2" THEN e2(game_state, turn)
    ELSE e0(game_state, turn)

(***************************************************************************)
(* Search Engine.  self is the record of the object's fields a search      *)
(* reads and writes; a call returns its value, its move and self with the  *)
(* statistics it has counted.  The clock is the field in_time: the calls   *)
(* of this search entered before time.time() - start_time reaches          *)
(* self.timeout - 0.01 (the clock never runs backwards), Never when it     *)
(* does not reach it.                                                      *)
(***************************************************************************)
Never == inf

\* Line 254, third disjunct, read in the call that is the total_nodes-th.
time_is_up(self) == self.total_nodes > self.in_time

\* No copy: the object itself is handed to make_move.
same_object(game_state) == [object |-> "same", value |-> game_state]

\* copy.deepcopy(game_state): a new object whose value is that of game_state.
deepcopy(game_state) == [object |-> "new", value |-> game_state]

\* The value of a caller's object after a call that was handed the object
\* made of it and left that one with the value returned: its own value when
\* the object handed on was new, the value returned when it was the same
\* object.
seen_after(made, game_state, returned) ==
    IF made.object = "new" THEN game_state ELSE returned

RECURSIVE minimax(_, _, _, _, _, _, _)
RECURSIVE max_loop(_, _, _, _, _, _, _, _, _, _)
RECURSIVE min_loop(_, _, _, _, _, _, _, _, _, _)

\* max_loop with >= for > in line 264: a tie keeps the later move.
max_loop_late_tie(self, game_state, potential_moves, i, depth_left, turn, alpha, beta, maximum, best_move) ==
    IF i > Len(potential_moves)
    THEN [state_value |-> maximum, move |-> best_move, self |-> self,
          game_state |-> game_state]
    ELSE LET made == deepcopy(game_state)
             potential_state ==
                 make_move(self.max_turns, made.value, potential_moves[i])
             child == minimax(self, potential_state, depth_left - 1, turn,
                              FALSE, alpha, beta)
             own == seen_after(made, game_state, child.game_state)
             improved == child.state_value >= maximum
             new_maximum == IF improved THEN child.state_value ELSE maximum
             new_best == IF improved THEN potential_moves[i] ELSE best_move
             new_alpha == IF self.alphabeta
                          THEN Max2(alpha, child.state_value) ELSE alpha
         IN  IF self.alphabeta /\ beta <= new_alpha
             THEN [state_value |-> new_maximum, move |-> new_best,
                   self |-> child.self, game_state |-> own]
             ELSE max_loop(child.self, own, potential_moves, i + 1,
                           depth_left, turn, new_alpha, beta,
                           new_maximum, new_best)

\* Lines 261-271: the loop over potential_moves from the i-th move on.
max_loop(self, game_state, potential_moves, i, depth_left, turn, alpha, beta, maximum, best_move) ==
    IF i > Len(potential_moves)
    THEN [state_value |-> maximum, move |-> best_move, self |-> self,
          game_state |-> game_state]
    ELSE LET made == deepcopy(game_state)
             potential_state ==
                 make_move(self.max_turns, made.value, potential_moves[i])
             child == minimax(self, potential_state, depth_left - 1, turn,
                              FALSE, alpha, beta)
             own == seen_after(made, game_state, child.game_state)
             improved == child.state_value > maximum
             new_maximum == IF improved THEN child.state_value ELSE maximum
             new_best == IF improved THEN potential_moves[i] ELSE best_move
             new_alpha == IF self.alphabeta
                          THEN Max2(alpha, child.state_value) ELSE alpha
         IN  IF self.alphabeta /\ beta <= new_alpha
             THEN [state_value |-> new_maximum, move |-> new_best,
                   self |-> child.self, game_state |-> own]
             ELSE max_loop(child.self, own, potential_moves, i + 1,
                           depth_left, turn, new_alpha, beta,
                           new_maximum, new_best)

\* min_loop with the comparison of line 284 turned round: alpha <= beta.
min_loop_wrong_cut(self, game_state, potential_moves, i, depth_left, turn, alpha, beta, minimum, best_move) ==
    IF i > Len(potential_moves)
    THEN [state_value |-> minimum, move |-> best_move, self |-> self,
          game_state |-> game_state]
    ELSE LET made == deepcopy(game_state)
             potential_state ==
                 make_move(self.max_turns, made.value, potential_moves[i])
             child == minimax(self, potential_state, depth_left - 1, turn,
                              TRUE, alpha, beta)
             own == seen_after(made, game_state, child.game_state)
             improved == child.state_value < minimum
             new_minimum == IF improved THEN child.state_value ELSE minimum
             new_best == IF improved THEN potential_moves[i] ELSE best_move
             new_beta == IF self.alphabeta
                         THEN Min2(beta, child.state_value) ELSE beta
         IN  IF self.alphabeta /\ alpha <= new_beta
             THEN [state_value |-> new_minimum, move |-> new_best,
                   self |-> child.self, game_state |-> own]
             ELSE min_loop(child.self, own, potential_moves, i + 1,
                           depth_left, turn, alpha, new_beta,
                           new_minimum, new_best)

\* Lines 276-286: the loop over potential_moves from the i-th move on.
min_loop(self, game_state, potential_moves, i, depth_left, turn, alpha, beta, minimum, best_move) ==
    IF i > Len(potential_moves)
    THEN [state_value |-> minimum, move |-> best_move, self |-> self,
          game_state |-> game_state]
    ELSE LET made == deepcopy(game_state)
             potential_state ==
                 make_move(self.max_turns, made.value, potential_moves[i])
             child == minimax(self, potential_state, depth_left - 1, turn,
                              TRUE, alpha, beta)
             own == seen_after(made, game_state, child.game_state)
             improved == child.state_value < minimum
             new_minimum == IF improved THEN child.state_value ELSE minimum
             new_best == IF improved THEN potential_moves[i] ELSE best_move
             new_beta == IF self.alphabeta
                         THEN Min2(beta, child.state_value) ELSE beta
         IN  IF self.alphabeta /\ new_beta <= alpha
             THEN [state_value |-> new_minimum, move |-> new_best,
                   self |-> child.self, game_state |-> own]
             ELSE min_loop(child.self, own, potential_moves, i + 1,
                           depth_left, turn, alpha, new_beta,
                           new_minimum, new_best)

\* minimax with depth <= 1 for depth == 0 in line 254.
minimax_leaf_early(self, game_state, depth_left, turn, is_max, alpha, beta) ==
    LET entered ==
            [self EXCEPT
                !.total_nodes = @ + 1,
                !.states_visited_per_depth[self.depth - depth_left] = @ + 1]
    IN  IF \/ depth_left <= 1
           \/ game_state.game_over_reason # ""
           \/ time_is_up(entered)
        THEN [state_value |->
                  heuristic_value(self.heuristic, game_state, turn),
              move |-> None,
              self |-> entered,
              game_state |-> game_state]
        ELSE LET expanded == [entered EXCEPT !.non_leaf_nodes = @ + 1]
             IN  IF is_max
                 THEN max_loop(expanded, game_state, valid_moves(game_state),
                               1, depth_left, turn, alpha, beta, -inf, None)
                 ELSE min_loop(expanded, game_state, valid_moves(game_state),
                               1, depth_left, turn, alpha, beta, inf, None)

\* minimax with line 253 moved below line 255: only the calls that are
\* expanded are counted per depth.
minimax_counts_expanded(self, game_state, depth_left, turn, is_max, alpha, beta) ==
    LET entered == [self EXCEPT !.total_nodes = @ + 1]
    IN  IF \/ depth_left = 0
           \/ game_state.game_over_reason # ""
           \/ time_is_up(entered)
        THEN [state_value |->
                  heuristic_value(self.heuristic, game_state, turn),
              move |-> None,
              self |-> entered,
              game_state |-> game_state]
        ELSE LET expanded ==
                     [entered EXCEPT
                         !.non_leaf_nodes = @ + 1,
                         !.states_visited_per_depth[self.depth - depth_left]
                             = @ + 1]
             IN  IF is_max
                 THEN max_loop(expanded, game_state, valid_moves(game_state),
                               1, depth_left, turn, alpha, beta, -inf, None)
                 ELSE min_loop(expanded, game_state, valid_moves(game_state),
                               1, depth_left, turn, alpha, beta, inf, None)

\* minimax without the second condition of line 254: a state whose game is
\* over is searched on.
minimax_past_the_end(self, game_state, depth_left, turn, is_max, alpha, beta) ==
    LET entered ==
            [self EXCEPT
                !.total_nodes = @ + 1,
                !.states_visited_per_depth[self.depth - depth_left] = @ + 1]
    IN  IF \/ depth_left = 0
           \/ time_is_up(entered)
        THEN [state_value |->
                  heuristic_value(self.heuristic, game_state, turn),
              move |-> None,
              self |-> entered,
              game_state |-> game_state]
        ELSE LET expanded == [entered EXCEPT !.non_leaf_nodes = @ + 1]
             IN  IF is_max
                 THEN max_loop(expanded, game_state, valid_moves(game_state),
                               1, depth_left, turn, alpha, beta, -inf, None)
                 ELSE min_loop(expanded, game_state, valid_moves(game_state),
                               1, depth_left, turn, alpha, beta, inf, None)

\* minimax(game_state, depth, turn, start_time, is_max, alpha, beta)
minimax(self, game_state, depth_left, turn, is_max, alpha, beta) ==
    LET entered ==
            [self EXCEPT
                !.total_nodes = @ + 1,
                !.states_visited_per_depth[self.depth - depth_left] = @ + 1]
    IN  IF \/ depth_left = 0
           \/ game_state.game_over_reason # ""
           \/ time_is_up(entered)
        THEN [state_value |->
                  heuristic_value(self.heuristic, game_state, turn),
              move |-> None,
              self |-> entered,
              game_state |-> game_state]
        ELSE LET expanded == [entered EXCEPT !.non_leaf_nodes = @ + 1]
             IN  IF is_max
                 THEN max_loop(expanded, game_state, valid_moves(game_state),
                               1, depth_left, turn, alpha, beta, -inf, None)
                 ELSE min_loop(expanded, game_state, valid_moves(game_state),
                               1, depth_left, turn, alpha, beta, inf, None)

(***************************************************************************)
(* Starting positions: each is reached from init_board by the moves of a   *)
(* line, every one of them a valid move of a live state.                   *)
(***************************************************************************)
Mv(a, b, c, d) == <<<<a, b>>, <<c, d>>>>

RECURSIVE Shuffles(_)
\* n full turns of the two kings stepping aside and back.
Shuffles(n) ==
    IF n = 0 THEN <<>>
    ELSE Shuffles(n - 1)
         \o (IF n % 2 = 1 THEN <<Mv(4, 4, 3, 4), Mv(0, 0, 1, 0)>>
             ELSE <<Mv(3, 4, 4, 4), Mv(1, 0, 0, 0)>>)

Lines ==
    { <<>>,
      \* both b- and d-pawns advanced to the seventh rank
      <<Mv(3, 1, 2, 1), Mv(1, 3, 2, 3), Mv(2, 1, 1, 1), Mv(2, 3, 3, 3)>>,
      \* the white knight has taken the c-pawn and attacks the king
      <<Mv(4, 1, 2, 0), Mv(1, 3, 2, 3), Mv(2, 0, 1, 2), Mv(2, 3, 3, 3)>>,
      \* nine turns without a capture
      Shuffles(9) }

RECURSIVE Replay(_, _, _)
\* The state after the moves of line, played by the game loop from
\* game_state; ok says that every move was valid when it was played.
Replay(maxTurns, played, line) ==
    IF line = <<>> \/ played.game_state.game_over_reason # "" THEN played
    ELSE Replay(maxTurns,
                [game_state |-> make_move(maxTurns, played.game_state,
                                          Head(line)),
                 ok |-> played.ok
                        /\ is_valid_move(played.game_state, Head(line)),
                 plies |-> played.plies + 1],
                Tail(line))

Start(maxTurns, line) ==
    Replay(maxTurns, [game_state |-> init_board, ok |-> TRUE, plies |-> 0],
           line)

\* The turn number a line ends in when no turn limit stops it.
LineTurn(line) == Len(line) \div 2 + 1

(***************************************************************************)
(* The game loop, human against human.                                     *)
(***************************************************************************)
\* The game starts from the position of a line, under a turn limit the
\* line has not reached.
Opened(lines) ==
    \E line \in lines :
        \E limit \in LineTurn(line)..(LineTurn(line) + TurnSlack) :
            /\ Start(limit, line).ok
            /\ max_turns = limit
            /\ current_game_state = Start(limit, line).game_state
            /\ plies = Start(limit, line).plies

\* The locals of play before the first iteration.
Entered ==
    /\ minimax_score = None
    /\ move = None
    /\ pc = "loop"
    /\ steps = 0
    /\ previous_game_state = current_game_state
    /\ in_time = None
    /\ typed = None
    /\ parsed = None

\* set_parameters and set_stats without an AI: lines 375-378 and 387.
Init ==
    /\ Opened(Lines)
    /\ white_ai = FALSE
    /\ black_ai = FALSE
    /\ timeout = None
    /\ alphabeta = None
    /\ heuristic = None
    /\ depth = None
    /\ states_visited_per_depth = None
    /\ non_leaf_nodes = None
    /\ total_nodes = None
    /\ Entered

\* The timeouts entered: 0 seconds, and 1 for any positive number.
Timeouts == {0, 1}
Heuristics == {"e0", "e1", "e2"}

\* set_parameters and set_stats with an AI: lines 380-383 and 389-391.
Configured ==
    /\ timeout \in Timeouts
    /\ alphabeta \in BOOLEAN
    /\ heuristic \in Heuristics
    /\ depth \in 0..MaxDepth
    /\ states_visited_per_depth = [d \in 0..depth |-> 0]
    /\ non_leaf_nodes = 0
    /\ total_nodes = 0

\* A game from init_board with the AI on both sides.
InitAI ==
    /\ Opened({<<>>})
    /\ white_ai = TRUE
    /\ black_ai = TRUE
    /\ Configured
    /\ Entered

\* The object's fields as a search reads them, the clock allowing calls
\* calls in time.
Self(calls) ==
    [timeout |-> timeout, max_turns |-> max_turns, alphabeta |-> alphabeta,
     heuristic |-> heuristic, depth |-> depth,
     states_visited_per_depth |-> states_visited_per_depth,
     non_leaf_nodes |-> non_leaf_nodes, total_nodes |-> total_nodes,
     in_time |-> calls]

\* What the clock may allow a search: with timeout 0 the first call is
\* already late (0 >= -0.01); otherwise any number of calls may be in time.
Clock == IF timeout = 0 THEN {0} ELSE {0, FewCalls, Never}

\* Line 313: the search play runs for the side to move.
RootSearch(calls) ==
    minimax(Self(calls), current_game_state, depth, current_game_state.turn,
            TRUE, -inf, inf)

\* SearchWith with the answer to 'enable alphabeta?' taken the other way.
SearchWith_negated(enabled, calls) ==
    minimax([Self(calls) EXCEPT
                !.alphabeta = ~enabled,
                !.states_visited_per_depth = [d \in 0..depth |-> 0],
                !.non_leaf_nodes = 0,
                !.total_nodes = 0],
            current_game_state, depth, current_game_state.turn,
            TRUE, -inf, inf)

\* The same search by an object whose alphabeta is enabled and whose
\* statistics are those of set_stats.
SearchWith(enabled, calls) ==
    minimax([Self(calls) EXCEPT
                !.alphabeta = enabled,
                !.states_visited_per_depth = [d \in 0..depth |-> 0],
                !.non_leaf_nodes = 0,
                !.total_nodes = 0],
            current_game_state, depth, current_game_state.turn,
            TRUE, -inf, inf)

\* The side to move is played by the AI.
AiToMove ==
    \/ current_game_state.turn = "white" /\ white_ai
    \/ current_game_state.turn = "black" /\ black_ai

\* One iteration with a human to move who enters a valid move in the
\* notation the program prints: the input is parsed (line 340), found in
\* valid_moves (line 341) and applied.  (An input that is not a valid move
\* leaves every field as it is and the loop asks again.)
HumanMove ==
    /\ pc = "loop"
    /\ current_game_state.game_over_reason = ""
    /\ ~AiToMove
    /\ steps < MaxSteps
    /\ \E m \in Range(valid_moves(current_game_state)) :
          /\ typed' = get_readable_move(m)
          /\ parsed' = parse_input(typed')
          /\ parsed' # None
          /\ is_valid_move(current_game_state, parsed')
          /\ move' = parsed'
          /\ current_game_state'
                = make_move(max_turns, current_game_state, parsed')
    /\ previous_game_state' = current_game_state
    /\ plies' = plies + 1
    /\ steps' = steps + 1
    /\ UNCHANGED <<max_turns, white_ai, black_ai, timeout, alphabeta,
                   heuristic, depth, states_visited_per_depth,
                   non_leaf_nodes, total_nodes, minimax_score, pc, in_time>>

\* The loop condition fails: the result is announced and play returns.
GameOver ==
    /\ pc = "loop"
    /\ current_game_state.game_over_reason # ""
    /\ pc' = "over"
    /\ UNCHANGED <<current_game_state, max_turns, white_ai, black_ai,
                   timeout, alphabeta, heuristic, depth,
                   states_visited_per_depth, non_leaf_nodes, total_nodes,
                   minimax_score, move, plies, steps, previous_game_state,
                   in_time, typed, parsed>>

\* One iteration with the AI to move (lines 312-332): the search, then
\* get_readable_move(move), which raises TypeError on None ('NoneType'
\* object is not subscriptable) and ends the program before make_move;
\* otherwise the move is made and the two node counters are reset.
AiMove ==
    /\ pc = "loop"
    /\ current_game_state.game_over_reason = ""
    /\ AiToMove
    /\ steps < MaxSteps
    /\ \E calls \in Clock :
          \E found \in {RootSearch(calls)} :
              /\ in_time' = calls
              /\ minimax_score' = found.state_value
              /\ move' = found.move
              /\ states_visited_per_depth'
                    = found.self.states_visited_per_depth
              /\ IF found.move = None
                 THEN /\ pc' = "crashed"
                      /\ typed' = typed
                      /\ non_leaf_nodes' = found.self.non_leaf_nodes
                      /\ total_nodes' = found.self.total_nodes
                      /\ current_game_state' = found.game_state
                      /\ plies' = plies
                 ELSE /\ pc' = "loop"
                      /\ typed' = get_readable_move(found.move)
                      /\ non_leaf_nodes' = 0
                      /\ total_nodes' = 0
                      /\ current_game_state'
                            = make_move(max_turns, found.game_state,
                                        found.move)
                      /\ plies' = plies + 1
    /\ previous_game_state' = current_game_state
    /\ steps' = steps + 1
    /\ UNCHANGED <<max_turns, white_ai, black_ai, timeout, alphabeta,
                   heuristic, depth, parsed>>

Next == HumanMove \/ GameOver

Spec == Init /\ [][Next]_vars

NextAI == AiMove \/ GameOver

SpecAI == InitAI /\ [][NextAI]_vars

(***************************************************************************)
(* The search as a function of the state it is given: minimax applied to   *)
(* the positions of the lines, for either side to move.                    *)
(***************************************************************************)
SearchLines ==
    Lines \cup
    { \* black to move, its pawn attacks the white king
      <<Mv(3, 1, 2, 1), Mv(1, 3, 2, 3), Mv(2, 1, 1, 1), Mv(2, 3, 3, 3),
        Mv(3, 2, 2, 2)>>,
      \* black to move after the white queen has taken the d-pawn
      <<Mv(4, 3, 1, 3)>>,
      \* the game is over: the black pawn has taken the white king
      <<Mv(3, 1, 2, 1), Mv(1, 3, 2, 3), Mv(2, 1, 1, 1), Mv(2, 3, 3, 3),
        Mv(3, 2, 2, 2), Mv(3, 3, 4, 4)>> }

InitSearch ==
    /\ Opened(SearchLines)
    /\ white_ai = TRUE
    /\ black_ai = TRUE
    /\ Configured
    /\ Entered

\* minimax(current_game_state, depth, turn, start_time), its result and the
\* statistics kept.
Search ==
    /\ pc = "loop"
    /\ \E calls \in Clock :
          \E found \in {RootSearch(calls)} :
              /\ in_time' = calls
              /\ minimax_score' = found.state_value
              /\ move' = found.move
              /\ states_visited_per_depth'
                    = found.self.states_visited_per_depth
              /\ non_leaf_nodes' = found.self.non_leaf_nodes
              /\ total_nodes' = found.self.total_nodes
              /\ current_game_state' = found.game_state
    /\ pc' = "searched"
    /\ steps' = steps + 1
    /\ previous_game_state' = current_game_state
    /\ UNCHANGED <<plies, max_turns, white_ai, black_ai, timeout, alphabeta,
                   heuristic, depth, typed, parsed>>

NextSearch == Search

SpecSearch == InitSearch /\ [][NextSearch]_vars

(***************************************************************************)
(* The notation as functions of a move: get_readable_move applied to any   *)
(* pair of squares, and parse_input applied to what it returns.            *)
(***************************************************************************)
InitNotation ==
    /\ Opened({<<>>})
    /\ white_ai = FALSE
    /\ black_ai = FALSE
    /\ timeout = None
    /\ alphabeta = None
    /\ heuristic = None
    /\ depth = None
    /\ states_visited_per_depth = None
    /\ non_leaf_nodes = None
    /\ total_nodes = None
    /\ minimax_score = None
    /\ move \in ((0..4) \X (0..4)) \X ((0..4) \X (0..4))
    /\ pc = "move"
    /\ steps = 0
    /\ previous_game_state = current_game_state
    /\ in_time = None
    /\ typed = None
    /\ parsed = None

\* get_readable_move(move)
ReadableMove ==
    /\ pc = "move"
    /\ typed' = get_readable_move(move)
    /\ pc' = "readable"
    /\ UNCHANGED <<current_game_state, max_turns, white_ai, black_ai,
                   timeout, alphabeta, heuristic, depth,
                   states_visited_per_depth, non_leaf_nodes, total_nodes,
                   minimax_score, move, plies, steps, previous_game_state,
                   in_time, parsed>>

\* parse_input(typed)
ParseInput ==
    /\ pc = "readable"
    /\ parsed' = parse_input(typed)
    /\ pc' = "parsed"
    /\ UNCHANGED <<current_game_state, max_turns, white_ai, black_ai,
                   timeout, alphabeta, heuristic, depth,
                   states_visited_per_depth, non_leaf_nodes, total_nodes,
                   minimax_score, move, plies, steps, previous_game_state,
                   in_time, typed>>

NextNotation == ReadableMove \/ ParseInput

SpecNotation == InitNotation /\ [][NextNotation]_vars

(***************************************************************************)
(* The claims about the board, the move generator and the move applicator, *)
(* checked under Spec.                                                     *)
(***************************************************************************)
Squares == (0..4) \X (0..4)
At(board, square) == board[square[1]][square[2]]
Count(board, piece) == Cardinality({sq \in Squares : At(board, sq) = piece})
Live == pc = "loop" /\ current_game_state.game_over_reason = ""
\* A move has been made in this run; previous_game_state and move are its.
Moved == steps > 0 /\ move # None
Moves == Range(valid_moves(current_game_state))
After(m) == make_move(max_turns, current_game_state, m)

\* Every starting position is what the game loop reaches from init_board.
StartsAreReached ==
    \A line \in SearchLines :
        \A limit \in LineTurn(line)..(LineTurn(line) + TurnSlack) :
            Start(limit, line).ok /\ Start(limit, line).plies = Len(line)

\* C1: in a live state, a valid move onto a king's square sets
\* game_over_reason to 'king captured' and leaves turn and turn_number as
\* they were, so that turn names the side that captured.
C1_KingCaptureEndsGame ==
    Live =>
        \A m \in Moves :
            At(current_game_state.board, m[2]) \in {"wK", "bK"} =>
                /\ After(m).game_over_reason = "king captured"
                /\ After(m).turn = current_game_state.turn
                /\ After(m).turn_number = current_game_state.turn_number
                /\ TurnInitial(After(m).turn)
                     = Colour(At(current_game_state.board, m[1]))

\* Black has taken the white king.
C1_Witness ==
    /\ Moved
    /\ At(previous_game_state.board, move[2]) = "wK"
    /\ previous_game_state.game_over_reason = ""
    /\ current_game_state.game_over_reason = "king captured"
    /\ current_game_state.turn = "black"
    /\ current_game_state.turn_number = previous_game_state.turn_number

\* C2: while the game is live the board holds exactly one 'wK' and one
\* 'bK'; in a terminal state at most one king is missing, and one is
\* missing only when game_over_reason is 'king captured'.
C2_OneKingEach ==
    LET board == current_game_state.board
        kings == <<Count(board, "wK"), Count(board, "bK")>>
    IN  /\ kings[1] <= 1 /\ kings[2] <= 1
        /\ current_game_state.game_over_reason = "" => kings = <<1, 1>>
        /\ kings[1] + kings[2] >= 1
        /\ kings # <<1, 1>>
             => current_game_state.game_over_reason = "king captured"

\* White has taken the black king: the game is over with one king left.
C2_Witness ==
    /\ Moved
    /\ current_game_state.game_over_reason = "king captured"
    /\ Count(current_game_state.board, "bK") = 0
    /\ Count(current_game_state.board, "wK") = 1

\* C3: a valid move that does not end the game flips turn and adds 1 to
\* turn_number exactly when black moved; so a live state after k plies
\* has white to move iff k is even, and turn_number = 1 + k div 2.
C3_TurnsAlternate ==
    Live =>
        /\ \A m \in Moves :
              After(m).game_over_reason = "" =>
                 /\ After(m).turn # current_game_state.turn
                 /\ After(m).turn \in {"white", "black"}
                 /\ After(m).turn_number
                      = current_game_state.turn_number
                        + (IF Colour(At(current_game_state.board, m[1])) = "b"
                           THEN 1 ELSE 0)
        /\ current_game_state.turn = "white" <=> plies % 2 = 0
        /\ current_game_state.turn_number = 1 + plies \div 2

\* Black has moved and the game goes on: white is to move in the next turn.
C3_Witness ==
    /\ Moved /\ Live
    /\ previous_game_state.turn = "black"
    /\ current_game_state.turn = "white"
    /\ current_game_state.turn_number = previous_game_state.turn_number + 1
    /\ plies >= 2

\* C4: after a valid move (from, to) the square from is empty, the square
\* to holds a queen of its colour if the moved piece was 'wp' and
\* to.row = 0 or 'bp' and to.row = 4 and the moved piece otherwise, and
\* the other 23 squares are as they were.
C4_BoardEffect ==
    Live =>
        \A m \in Moves :
            LET moved == At(current_game_state.board, m[1])
            IN  /\ m[1] # m[2]
                /\ At(After(m).board, m[1]) = "."
                /\ At(After(m).board, m[2])
                     = (IF moved = "wp" /\ m[2][1] = 0 THEN "wQ"
                        ELSE IF moved = "bp" /\ m[2][1] = 4 THEN "bQ"
                        ELSE moved)
                /\ \A sq \in Squares \ {m[1], m[2]} :
                      At(After(m).board, sq)
                        = At(current_game_state.board, sq)
                /\ Cardinality(Squares \ {m[1], m[2]}) = 23

\* A black pawn has reached row 4 and become a queen.
C4_Witness ==
    /\ Moved
    /\ At(previous_game_state.board, move[1]) = "bp"
    /\ move[2][1] = 4
    /\ At(current_game_state.board, move[2]) = "bQ"
    /\ At(current_game_state.board, move[1]) = "."

\* The pseudo-legal moves of the rules, for the side to move.
Abs(n) == IF n < 0 THEN -n ELSE n
Sign(n) == IF n < 0 THEN -1 ELSE IF n > 0 THEN 1 ELSE 0
\* The squares strictly between two squares of one row, column or diagonal.
Between(from, to) ==
    LET dr == to[1] - from[1]
        dc == to[2] - from[2]
        n == IF Abs(dr) >= Abs(dc) THEN Abs(dr) ELSE Abs(dc)
    IN  {<<from[1] + k * Sign(dr), from[2] + k * Sign(dc)>> : k \in 1..(n - 1)}
PseudoLegal(game_state) ==
    LET board == game_state.board
        side == TurnInitial(game_state.turn)
        forward == IF game_state.turn = "white" THEN -1 ELSE 1
        enemy(sq) == At(board, sq) # "." /\ Colour(At(board, sq)) # side
        free(sq) == Colour(At(board, sq)) # side
        diagonal(from, to) ==
            Abs(to[1] - from[1]) = Abs(to[2] - from[2]) /\ from # to
        straight(from, to) ==
            (to[1] = from[1] \/ to[2] = from[2]) /\ from # to
        clear(from, to) == \A sq \in Between(from, to) : At(board, sq) = "."
        rule(from, to) ==
            LET kind == Kind(At(board, from))
                dr == to[1] - from[1]
                dc == to[2] - from[2]
            IN  CASE kind = "p" ->
                       /\ dr = forward
                       /\ \/ dc = 0 /\ At(board, to) = "."
                          \/ Abs(dc) = 1 /\ enemy(to)
                  [] kind = "N" ->
                       {Abs(dr), Abs(dc)} = {1, 2} /\ free(to)
                  [] kind = "K" ->
                       Abs(dr) <= 1 /\ Abs(dc) <= 1 /\ from # to /\ free(to)
                  [] kind = "B" ->
                       diagonal(from, to) /\ clear(from, to) /\ free(to)
                  [] kind = "Q" ->
                       /\ diagonal(from, to) \/ straight(from, to)
                       /\ clear(from, to) /\ free(to)
    IN  {m \in Squares \X Squares :
            Colour(At(board, m[1])) = side /\ rule(m[1], m[2])}

\* C5: valid_moves returns exactly the pseudo-legal moves of the side to
\* move, each once: both squares on the board, the source a piece of the
\* side to move, the destination not one.
C5_ValidMovesArePseudoLegal ==
    LET moves == valid_moves(current_game_state)
        side == TurnInitial(current_game_state.turn)
    IN  /\ Range(moves) = PseudoLegal(current_game_state)
        /\ Cardinality(Range(moves)) = Len(moves)
        /\ \A m \in Range(moves) :
              /\ is_valid_coordinate(m[1]) /\ is_valid_coordinate(m[2])
              /\ m[1] \in Squares /\ m[2] \in Squares
              /\ Colour(At(current_game_state.board, m[1])) = side
              /\ Colour(At(current_game_state.board, m[2])) # side

\* After a move, the generator offers a capture by a bishop or queen whose
\* ray would go on across the board, and a capture by a pawn.
C5_Witness ==
    /\ Moved /\ Live
    /\ \E m \in Moves :
          /\ Kind(At(current_game_state.board, m[1])) \in {"B", "Q"}
          /\ At(current_game_state.board, m[2]) # "."
          /\ is_valid_coordinate(<<2 * m[2][1] - m[1][1],
                                   2 * m[2][2] - m[1][2]>>)
          /\ Abs(m[2][1] - m[1][1]) <= 1 /\ Abs(m[2][2] - m[1][2]) <= 1
    /\ \E m \in Moves :
          /\ Kind(At(current_game_state.board, m[1])) = "p"
          /\ m[1][2] # m[2][2]

\* C6, as claimed: turns_without_capture is 0 after every capture, one
\* more after every black move without a capture, and unchanged by a
\* white move without a capture.
C6_EveryQuietBlackMoveCounts ==
    Live =>
        \A m \in Moves :
            After(m).turns_without_capture =
                IF At(current_game_state.board, m[2]) # "." THEN 0
                ELSE IF Colour(At(current_game_state.board, m[1])) = "b"
                THEN current_game_state.turns_without_capture + 1
                ELSE current_game_state.turns_without_capture

\* C6, amended: turns_without_capture is 0 after every capture, unchanged by
\* a white move without a capture, one more after a black move without a
\* capture when white's move before it did not capture either
\* (turn_no_capture), and unchanged by a black move without a capture that
\* follows a white capture.
C6_QuietTurnsCount ==
    Live =>
        \A m \in Moves :
            After(m).turns_without_capture =
                IF At(current_game_state.board, m[2]) # "." THEN 0
                ELSE IF /\ Colour(At(current_game_state.board, m[1])) = "b"
                        /\ current_game_state.turn_no_capture
                THEN current_game_state.turns_without_capture + 1
                ELSE current_game_state.turns_without_capture

\* White captured, black then moved without capturing, and the counter is
\* still 0.
C6_Witness ==
    /\ Moved
    /\ steps >= 2
    /\ previous_game_state.turn = "black"
    /\ ~previous_game_state.turn_no_capture
    /\ At(previous_game_state.board, move[2]) = "."
    /\ current_game_state.turns_without_capture = 0
    /\ previous_game_state.turns_without_capture = 0

\* White's pieces minus black's, a pawn counting 1, a knight or bishop 3,
\* a queen 9 and a king 999.
Material(board) ==
    1 * (Count(board, "wp") - Count(board, "bp"))
    + 3 * (Count(board, "wN") - Count(board, "bN"))
    + 3 * (Count(board, "wB") - Count(board, "bB"))
    + 9 * (Count(board, "wQ") - Count(board, "bQ"))
    + 999 * (Count(board, "wK") - Count(board, "bK"))

\* The state the game is in and the states its valid moves lead to.
Nearby ==
    {current_game_state}
    \cup (IF Live THEN {After(m) : m \in Moves} ELSE {})

\* C13: e0 returns the sum of the values of white's pieces minus the sum of
\* black's (pawn 1, knight 3, bishop 3, queen 9, king 999), the same number
\* for white's and for black's perspective, and 0 on the initial position.
C13_MaterialIsWhitePositive ==
    /\ e0(init_board, "white") = 0
    /\ e0(init_board, "black") = 0
    /\ \A s \in Nearby :
          /\ e0(s, "white") = Material(s.board)
          /\ e0(s, "black") = Material(s.board)

\* Black has captured and is ahead: e0 is the same negative number for
\* black as for white.
C13_Witness ==
    /\ Moved
    /\ previous_game_state.turn = "black"
    /\ At(previous_game_state.board, move[2]) # "."
    /\ Material(current_game_state.board) < 0
    /\ e0(current_game_state, "black") = Material(current_game_state.board)
    /\ e0(current_game_state, "white") = e0(current_game_state, "black")

\* C14: the terminal checks of make_move have the priority king capture,
\* max turns, no captures: a move onto a king gives 'king captured' even
\* when black makes it with turn_number = max_turns; a black move made with
\* turn_number = max_turns that takes no king gives 'max turns' even when
\* it brings turns_without_capture to 10; 'no captures' is given only when
\* neither applies.  The reason is one of the three, or empty.
C14_TerminalPriority ==
    /\ current_game_state.game_over_reason
          \in {"", "king captured", "max turns", "no captures"}
    /\ Live =>
          \A m \in Moves :
              LET mover == Colour(At(current_game_state.board, m[1]))
                  taken == At(current_game_state.board, m[2])
                  last == mover = "b"
                          /\ current_game_state.turn_number = max_turns
              IN  After(m).game_over_reason =
                      IF taken \in {"wK", "bK"} THEN "king captured"
                      ELSE IF last THEN "max turns"
                      ELSE IF After(m).turns_without_capture = 10
                      THEN "no captures"
                      ELSE ""

\* Black's move in the last turn brought the counter to 10, and the game
\* ended by 'max turns'.
C14_Witness ==
    /\ Moved
    /\ previous_game_state.turn = "black"
    /\ previous_game_state.turn_number = max_turns
    /\ current_game_state.turns_without_capture = 10
    /\ current_game_state.game_over_reason = "max turns"

\* Black took the king in the last turn: 'king captured', not 'max turns'.
TookKingInLastTurn ==
    /\ Moved
    /\ previous_game_state.turn = "black"
    /\ previous_game_state.turn_number = max_turns
    /\ current_game_state.game_over_reason = "king captured"

\* The counter reached 10 before the last turn: 'no captures'.
DrawnByNoCaptures ==
    /\ Moved
    /\ previous_game_state.turn_number < max_turns
    /\ current_game_state.game_over_reason = "no captures"

\* C15: in every reachable state 0 <= turns_without_capture <= 10, and a
\* state whose counter is 10 is terminal: no move is played from it.
C15_CounterStopsAtTen ==
    /\ current_game_state.turns_without_capture \in 0..10
    /\ current_game_state.turns_without_capture = 10
          => current_game_state.game_over_reason # ""
    /\ Moved => previous_game_state.turns_without_capture < 10
    /\ Live =>
          \A m \in Moves :
              /\ After(m).turns_without_capture \in 0..10
              /\ After(m).turns_without_capture = 10
                    => After(m).game_over_reason # ""

\* The tenth turn without a capture has been played, before the last turn:
\* the game is drawn.
C15_Witness ==
    /\ Moved
    /\ previous_game_state.turns_without_capture = 9
    /\ current_game_state.turns_without_capture = 10
    /\ current_game_state.turn_number < max_turns
    /\ current_game_state.game_over_reason = "no captures"
    /\ pc = "over"

\* C16: with max_turns = N >= 1, turn_number <= N in every reachable state
\* and the game is over after at most 2N plies: a black move made while
\* turn_number = N always ends it.  'max turns' is set only by a black move
\* made with turn_number = N, never by a white move.
C16_TurnLimit ==
    /\ max_turns >= 1
    /\ current_game_state.turn_number \in 1..max_turns
    /\ plies <= 2 * max_turns
    /\ plies = 2 * max_turns => current_game_state.game_over_reason # ""
    /\ Live =>
          \A m \in Moves :
              LET black == Colour(At(current_game_state.board, m[1])) = "b"
                  last == current_game_state.turn_number = max_turns
              IN  /\ (black /\ last) => After(m).game_over_reason # ""
                  /\ After(m).game_over_reason = "max turns"
                        <=> (/\ black /\ last
                             /\ At(current_game_state.board, m[2])
                                    \notin {"wK", "bK"})
                  /\ After(m).turn_number <= max_turns
    /\ (Moved /\ current_game_state.game_over_reason = "max turns") =>
          /\ previous_game_state.turn = "black"
          /\ previous_game_state.turn_number = max_turns

\* Black has made the last move the turn limit allows: after 2N plies the
\* game is over by 'max turns'.
C16_Witness ==
    /\ Moved
    /\ plies = 2 * max_turns
    /\ current_game_state.turn_number = max_turns
    /\ previous_game_state.turn = "black"
    /\ current_game_state.game_over_reason = "max turns"
    /\ current_game_state.turns_without_capture < 10

\* The terms of e1, stated from the rules.
Sides == {"white", "black"}
KingOf(side) == IF side = "white" THEN "wK" ELSE "bK"
HasKing(game_state, side) == Count(game_state.board, KingOf(side)) = 1
SignedMaterial(game_state, side) ==
    IF side = "white" THEN Material(game_state.board)
    ELSE -Material(game_state.board)
\* The side's king can be taken by a pseudo-legal move of the opponent, who
\* is to move.
Capturable(game_state, side) ==
    /\ game_state.turn # side
    /\ \E m \in PseudoLegal(game_state) :
          At(game_state.board, m[2]) = KingOf(side)
\* The side's pieces on the rows in front of its king: above it for white,
\* below it for black.
InFront(game_state, side) ==
    Cardinality(
        {sq \in Squares :
            /\ Colour(At(game_state.board, sq)) = TurnInitial(side)
            /\ \E k \in Squares :
                  /\ At(game_state.board, k) = KingOf(side)
                  /\ IF side = "white" THEN sq[1] < k[1] ELSE sq[1] > k[1]})

\* C20, as claimed: e1(state, P) is the material signed for P plus -999
\* when P's king can be captured by the opponent to move, and plus
\* 4 * n - 10 otherwise, n being the number of P's pieces in front of its
\* king (a count, whatever it counts when there is no king).
C20_SafetyOfTheKing ==
    \A s \in Nearby : \A side \in Sides :
        IF Capturable(s, side)
        THEN e1(s, side) = SignedMaterial(s, side) - 999
        ELSE \E n \in 0..25 :
                /\ HasKing(s, side) => n = InFront(s, side)
                /\ e1(s, side) = SignedMaterial(s, side) + 4 * n - 10

\* C20, amended: e1(state, P) is the material signed for P plus -999 when
\* P's king is not on the board or can be captured by the opponent to
\* move, and plus 4 * n - 10 otherwise, n being the number of P's pieces on
\* the rows in front of its king.
C20_SafetyOfAKingOnTheBoard ==
    \A s \in Nearby : \A side \in Sides :
        e1(s, side) =
            SignedMaterial(s, side)
            + (IF ~HasKing(s, side) \/ Capturable(s, side) THEN -999
               ELSE 4 * InFront(s, side) - 10)

\* After a move a king stands attacked with the opponent to move, and the
\* other side's king is safe behind three of its pieces.
C20_Witness ==
    /\ Moved /\ Live
    /\ \E side \in Sides :
          /\ HasKing(current_game_state, side)
          /\ Capturable(current_game_state, side)
          /\ e1(current_game_state, side)
               = SignedMaterial(current_game_state, side) - 999
    /\ \E side \in Sides :
          /\ ~Capturable(current_game_state, side)
          /\ InFront(current_game_state, side) >= 3
          /\ e1(current_game_state, side)
               = SignedMaterial(current_game_state, side)
                 + 4 * InFront(current_game_state, side) - 10

\* A king has been taken: e1 counts -999 for the side without a king.
KingLost ==
    /\ Moved
    /\ \E side \in Sides :
          /\ ~HasKing(current_game_state, side)
          /\ ~Capturable(current_game_state, side)
          /\ e1(current_game_state, side)
               = SignedMaterial(current_game_state, side) - 999

\* The squares of a board that hold a pawn.
Pawns(board) == {sq \in Squares : At(board, sq) \in {"wp", "bp"}}

\* No pawn stands on row 0 or on row 4.
PawnsInside(board) == \A sq \in Pawns(board) : sq[1] \in 1..3

\* The row line 130 computes for a pawn of the side to move.
ForwardRow(game_state, sq) ==
    IF game_state.turn = "white" THEN sq[1] - 1 ELSE sq[1] + 1

\* C21: no pawn stands on row 0 or on row 4, in the states the game reaches
\* and in the states its valid moves lead to, so the forward row of every
\* pawn of the side to move is on the board; a pawn moves one row forward
\* only, and one that reaches the last row is a queen after the move.
C21_NoPawnOnTheEndRows ==
    /\ PawnsInside(current_game_state.board)
    /\ \A sq \in Pawns(current_game_state.board) :
          Colour(At(current_game_state.board, sq))
                = TurnInitial(current_game_state.turn)
             => is_valid_coordinate(
                    <<ForwardRow(current_game_state, sq), sq[2]>>)
    /\ Live =>
          \A m \in Moves :
              /\ PawnsInside(After(m).board)
              /\ At(current_game_state.board, m[1]) = "wp" =>
                    /\ m[2][1] = m[1][1] - 1
                    /\ m[2][1] = 0 => At(After(m).board, m[2]) = "wQ"
              /\ At(current_game_state.board, m[1]) = "bp" =>
                    /\ m[2][1] = m[1][1] + 1
                    /\ m[2][1] = 4 => At(After(m).board, m[2]) = "bQ"

\* A white pawn has moved to row 0 and a black pawn to row 4: each is a
\* queen, and the board holds no pawn on either row.
C21_Witness ==
    /\ Moved
    /\ steps = 2
    /\ At(previous_game_state.board, move[1]) = "bp"
    /\ move[2][1] = 4
    /\ At(current_game_state.board, move[2]) = "bQ"
    /\ \E c \in 0..4 : At(current_game_state.board, <<0, c>>) = "wQ"
    /\ Count(current_game_state.board, "wQ") = 2
    /\ PawnsInside(current_game_state.board)

\* The number of pieces of a colour ("w" or "b") on a board.
PiecesOf(board, colour) ==
    Cardinality({sq \in Squares : Colour(At(board, sq)) = colour})

Opponent(colour) == IF colour = "w" THEN "b" ELSE "w"

\* C22: each side holds at most 6 pieces and never more than before; a
\* valid move keeps the pieces of the side moving and removes one piece of
\* the other side exactly when its destination was occupied, which is
\* exactly when it sets turns_without_capture to 0: a move to an empty
\* square keeps the counter or adds 1 to it.
C22_PiecesOnlyLeave ==
    /\ \A colour \in {"w", "b"} :
          /\ PiecesOf(current_game_state.board, colour) <= 6
          /\ PiecesOf(current_game_state.board, colour)
                <= PiecesOf(previous_game_state.board, colour)
          /\ PiecesOf(previous_game_state.board, colour)
                <= PiecesOf(init_board.board, colour)
    /\ Live =>
          \A m \in Moves :
              LET before == current_game_state.board
                  mover == TurnInitial(current_game_state.turn)
                  taken == At(before, m[2])
                  lost == IF taken = "." THEN 0 ELSE 1
              IN  /\ Colour(At(before, m[1])) = mover
                  /\ PiecesOf(After(m).board, mover)
                        = PiecesOf(before, mover)
                  /\ PiecesOf(After(m).board, Opponent(mover))
                        = PiecesOf(before, Opponent(mover)) - lost
                  /\ taken # "." =>
                        /\ Colour(taken) = Opponent(mover)
                        /\ After(m).turns_without_capture = 0
                  /\ taken = "." =>
                        After(m).turns_without_capture
                          \in {current_game_state.turns_without_capture,
                               current_game_state.turns_without_capture + 1}

\* After nine turns without a capture a piece has been taken: its side has
\* one piece fewer, the other side as many as before, and the counter is 0.
C22_Witness ==
    /\ Moved
    /\ previous_game_state.turns_without_capture = 9
    /\ At(previous_game_state.board, move[2]) = "bp"
    /\ current_game_state.turns_without_capture = 0
    /\ PiecesOf(previous_game_state.board, "b") = 6
    /\ PiecesOf(current_game_state.board, "b") = 5
    /\ PiecesOf(current_game_state.board, "w") = 6

(***************************************************************************)
(* The claims about the search as a function, checked under SpecSearch,    *)
(* whose states with pc = "searched" hold the result of one search of      *)
(* current_game_state.                                                     *)
(***************************************************************************)
Searched == pc = "searched"
RootMoves == valid_moves(current_game_state)
\* The evaluation, for the side that searches, of the state a move leads to.
Successor(m) ==
    heuristic_value(heuristic,
                    make_move(max_turns, current_game_state, m),
                    current_game_state.turn)

\* C7: when the time cutoff never triggers, the root score of a search
\* with alpha-beta enabled is the root score of the same search (state,
\* depth, evaluator) with alpha-beta disabled.
C7_PruningKeepsTheScore ==
    (Searched /\ in_time = Never /\ alphabeta) =>
        minimax_score = SearchWith(FALSE, Never).state_value

\* A depth-2 search with alpha-beta that visited fewer nodes than the
\* search without it, and returned its score.
C7_Witness ==
    /\ Searched /\ in_time = Never /\ alphabeta /\ depth = 2
    /\ total_nodes < SearchWith(FALSE, Never).self.total_nodes
    /\ minimax_score = SearchWith(FALSE, Never).state_value

\* C10: a depth-1 search without time cutoff of a live state with a valid
\* move returns a move m and the evaluation, for the root side, of the
\* state m leads to; that score is the maximum over the valid moves, and m
\* is the first move of valid_moves that attains it.  From init_board with
\* e0 the move is not absent and the score is the material of its successor.
C10_DepthOneSearch ==
    (/\ Searched /\ in_time = Never /\ depth = 1
     /\ current_game_state.game_over_reason = ""
     /\ RootMoves # <<>>) =>
        /\ move # None
        /\ move \in Range(RootMoves)
        /\ minimax_score = Successor(move)
        /\ \A i \in 1..Len(RootMoves) :
              /\ Successor(RootMoves[i]) <= minimax_score
              /\ Successor(RootMoves[i]) = minimax_score
                    => \E j \in 1..i : RootMoves[j] = move
        /\ (current_game_state = init_board /\ heuristic = "e0")
              => minimax_score
                    = material_score(make_move(max_turns, init_board, move))

\* A depth-1 search in which a later move ties with the move returned.
C10_Witness ==
    /\ Searched /\ in_time = Never /\ depth = 1
    /\ move # None
    /\ minimax_score = Successor(move)
    /\ \E i, j \in 1..Len(RootMoves) :
          /\ i < j
          /\ RootMoves[i] = move
          /\ Successor(RootMoves[j]) = minimax_score

\* C11: for the same state, depth and evaluator, without time cutoff and
\* with the counters zeroed before each run, the search with alpha-beta
\* visits at most as many nodes (total_nodes) as the search without it.
C11_PruningVisitsNoMore ==
    (Searched /\ in_time = Never) =>
        /\ total_nodes = SearchWith(alphabeta, Never).self.total_nodes
        /\ SearchWith(TRUE, Never).self.total_nodes
             <= SearchWith(FALSE, Never).self.total_nodes

\* A depth-2 search from a position with several replies to every move,
\* in which alpha-beta left some of the nodes of the full search unvisited.
C11_Witness ==
    /\ Searched /\ in_time = Never /\ alphabeta /\ depth >= 2
    /\ Len(RootMoves) >= 2
    /\ total_nodes = SearchWith(TRUE, Never).self.total_nodes
    /\ total_nodes < SearchWith(FALSE, Never).self.total_nodes
    /\ total_nodes > 1 + Len(RootMoves)

\* C17: a search does not modify the game state handed to it: when minimax
\* returns, the board, turn, turn_number, turns_without_capture,
\* turn_no_capture and game_over_reason of the caller's state are what they
\* were before the call, every make_move of the search having been applied
\* to a new copy.
C17_SearchLeavesTheState ==
    Searched =>
        /\ current_game_state.board = previous_game_state.board
        /\ current_game_state.turn = previous_game_state.turn
        /\ current_game_state.turn_number = previous_game_state.turn_number
        /\ current_game_state.turns_without_capture
             = previous_game_state.turns_without_capture
        /\ current_game_state.turn_no_capture
             = previous_game_state.turn_no_capture
        /\ current_game_state.game_over_reason
             = previous_game_state.game_over_reason

\* A search has made moves at two depths, a capture of a king among those
\* at the root, and the state it was handed is as it was.
C17_Witness ==
    /\ Searched /\ depth = 2
    /\ non_leaf_nodes >= 2
    /\ states_visited_per_depth[2] >= 2
    /\ \E m \in Range(RootMoves) :
          At(current_game_state.board, m[2]) \in {"wK", "bK"}
    /\ current_game_state = previous_game_state
    /\ current_game_state.game_over_reason = ""

RECURSIVE FullValue(_, _, _, _)
\* The value of a state searched to depth d for the side turn, by the rule
\* alone: a state is a leaf when d = 0 or its game is over, and the value
\* of any other is the greatest or the least of the values of the states
\* its valid moves lead to.
FullValue(game_state, d, turn, is_max) ==
    IF d = 0 \/ game_state.game_over_reason # ""
    THEN heuristic_value(heuristic, game_state, turn)
    ELSE LET values ==
                 {FullValue(make_move(max_turns, game_state, m), d - 1, turn,
                            ~is_max) :
                     m \in Range(valid_moves(game_state))}
         IN  IF values = {} THEN (IF is_max THEN -inf ELSE inf)
             ELSE IF is_max
             THEN CHOOSE v \in values : \A w \in values : w <= v
             ELSE CHOOSE v \in values : \A w \in values : v <= w

RECURSIVE FullTree(_, _)
RECURSIVE FullBelow(_, _, _, _)
\* The calls, and the calls that are not leaves, of a search of a state to
\* depth d by the same rule.
FullTree(game_state, d) ==
    IF d = 0 \/ game_state.game_over_reason # "" THEN <<1, 0>>
    ELSE LET below == FullBelow(game_state, valid_moves(game_state), d, 1)
         IN  <<1 + below[1], 1 + below[2]>>

\* Those spent on the moves of a state from the i-th on.
FullBelow(game_state, moves, d, i) ==
    IF i > Len(moves) THEN <<0, 0>>
    ELSE LET first == FullTree(make_move(max_turns, game_state, moves[i]),
                               d - 1)
             rest == FullBelow(game_state, moves, d, i + 1)
         IN  <<first[1] + rest[1], first[2] + rest[2]>>

\* The state the first move of the root leads to.
FirstChild == make_move(max_turns, current_game_state, RootMoves[1])

\* C18: a call of minimax is a leaf, returning the evaluation for the root
\* side and no move without expanding, exactly when depth = 0, or the game
\* of its state is over, or the time is up when it is entered.  So no move
\* is made in a state whose game is over, every leaf is scored for the side
\* that searches, and no call is expanded once the time is up: the moves
\* of the calls then open get one leaf each and the search returns.
C18_LeafRule ==
    Searched =>
        LET leaf == \/ depth = 0
                    \/ current_game_state.game_over_reason # ""
                    \/ in_time = 0
        IN  /\ leaf <=> non_leaf_nodes = 0
            /\ leaf =>
                  /\ move = None
                  /\ total_nodes = 1
                  /\ states_visited_per_depth[0] = 1
                  /\ minimax_score
                       = heuristic_value(heuristic, current_game_state,
                                         current_game_state.turn)
            /\ non_leaf_nodes <= in_time
            /\ in_time = Never =>
                  minimax_score
                    = FullValue(current_game_state, depth,
                                current_game_state.turn, TRUE)
            /\ (in_time = Never /\ ~alphabeta) =>
                  <<total_nodes, non_leaf_nodes>>
                    = FullTree(current_game_state, depth)
            /\ (in_time = 2 /\ depth = 2 /\ ~alphabeta /\ ~leaf) =>
                  /\ states_visited_per_depth[0] = 1
                  /\ states_visited_per_depth[1] = Len(RootMoves)
                  /\ states_visited_per_depth[2]
                       = (IF FirstChild.game_over_reason # "" THEN 0
                          ELSE Len(valid_moves(FirstChild)))
                  /\ non_leaf_nodes
                       = (IF FirstChild.game_over_reason # "" THEN 1 ELSE 2)

\* The time was up after two calls of a depth-2 search: the root and its
\* first child were expanded, and every move of theirs got one leaf.
C18_Witness ==
    /\ Searched /\ depth = 2 /\ in_time = 2 /\ ~alphabeta
    /\ non_leaf_nodes = 2
    /\ total_nodes = 1 + Len(RootMoves) + Len(valid_moves(FirstChild))
    /\ total_nodes < FullTree(current_game_state, depth)[1]
    /\ move # None

\* A search reached a state whose game was over above depth 0 and made no
\* move in it.
SearchMetTheEnd ==
    /\ Searched /\ depth = 2 /\ in_time = Never /\ ~alphabeta
    /\ current_game_state.game_over_reason = ""
    /\ \E m \in Range(RootMoves) :
          make_move(max_turns, current_game_state, m).game_over_reason # ""
    /\ <<total_nodes, non_leaf_nodes>>
         = FullTree(current_game_state, depth)

(***************************************************************************)
(* The claims about the game loop with the AI to move, checked under       *)
(* SpecAI.  After an iteration (steps > 0) move and minimax_score are the  *)
(* result of its search and previous_game_state is the state searched.     *)
(***************************************************************************)
AbsentMove == steps > 0 /\ move = None

\* A live state always has a move: its side's king or another piece of
\* that side can step somewhere.
LiveStatesHaveMoves ==
    current_game_state.game_over_reason = "" => RootMoves # <<>>

\* C8, as claimed: the move the root search returns to the game loop is
\* absent only when the root state has no valid move.
C8_AbsentOnlyWithoutMoves ==
    AbsentMove => valid_moves(previous_game_state) = <<>>

\* C8, amended: the move the root search returns to the game loop is absent
\* only when the root state has no valid move or the root call is itself
\* a leaf: the configured depth is 0, or the time is up when the root call
\* is entered.
C8_AbsentOnlyAtLeafRoot ==
    AbsentMove =>
        \/ valid_moves(previous_game_state) = <<>>
        \/ depth = 0
        \/ in_time = 0

\* A root search of depth >= 1 of a state with valid moves found the time
\* up and returned no move.
C8_Witness ==
    /\ AbsentMove
    /\ depth >= 1
    /\ in_time = 0
    /\ valid_moves(previous_game_state) # <<>>
    /\ previous_game_state.game_over_reason = ""

\* C9: when the root search returns an absent move, play neither raises
\* nor applies a move to the game state.
C9_CallerToleratesAbsentMove ==
    AbsentMove =>
        /\ pc # "crashed"
        /\ current_game_state = previous_game_state

RECURSIVE SumTo(_, _)
\* sum(states_visited_per_depth) over the buckets 0..d
SumTo(visited, d) ==
    IF d < 0 THEN 0 ELSE visited[d] + SumTo(visited, d - 1)

\* The statistics of the search of the last iteration, counted from 0 as
\* line 332 leaves total_nodes and non_leaf_nodes: the search of
\* previous_game_state under the clock in_time.
LastSearch ==
    minimax([Self(in_time) EXCEPT
                !.states_visited_per_depth = [d \in 0..depth |-> 0],
                !.non_leaf_nodes = 0,
                !.total_nodes = 0],
            previous_game_state, depth, previous_game_state.turn,
            TRUE, -inf, inf).self

\* C19, as claimed: the caller resets the per-depth histogram between
\* searches as it resets the two counters, so that after every search of
\* the game loop the histogram sums to the total_nodes of that search, and
\* non_leaf_nodes <= total_nodes.
C19_HistogramOfTheLastSearch ==
    steps > 0 =>
        /\ DOMAIN states_visited_per_depth = 0..depth
        /\ SumTo(states_visited_per_depth, depth) = LastSearch.total_nodes
        /\ LastSearch.non_leaf_nodes <= LastSearch.total_nodes

\* C19, amended: every call of minimax adds 1 to total_nodes and to the
\* bucket depth - depth_left of the histogram, which is one of 0..depth;
\* the caller resets total_nodes and non_leaf_nodes after a search whose
\* move it makes, and never the histogram, which accumulates over the
\* searches of the game: every search adds its total_nodes to the sum of
\* the histogram and 1 to bucket 0, and non_leaf_nodes <= total_nodes.
C19_HistogramAccumulates ==
    /\ DOMAIN states_visited_per_depth = 0..depth
    /\ states_visited_per_depth[0] = steps
    /\ pc = "loop" => total_nodes = 0 /\ non_leaf_nodes = 0
    /\ steps = 0 => SumTo(states_visited_per_depth, depth) = 0
    /\ steps > 0 =>
          /\ LastSearch.non_leaf_nodes <= LastSearch.total_nodes
          /\ LastSearch.total_nodes
               = SumTo(LastSearch.states_visited_per_depth, depth)
          /\ SumTo(states_visited_per_depth, depth)
               >= LastSearch.total_nodes + (steps - 1)
          /\ steps = 1 =>
                SumTo(states_visited_per_depth, depth)
                  = LastSearch.total_nodes
          /\ pc = "crashed" =>
                /\ total_nodes = LastSearch.total_nodes
                /\ non_leaf_nodes = LastSearch.non_leaf_nodes
    /\ (Live /\ AiToMove) =>
          \A calls \in Clock :
              LET counted == RootSearch(calls).self
              IN  /\ DOMAIN counted.states_visited_per_depth = 0..depth
                  /\ SumTo(counted.states_visited_per_depth, depth)
                       = SumTo(states_visited_per_depth, depth)
                         + counted.total_nodes
                  /\ counted.states_visited_per_depth[0]
                       = states_visited_per_depth[0] + 1
                  /\ counted.non_leaf_nodes <= counted.total_nodes

\* After the second search of a game the histogram holds the nodes of both
\* searches, and the two counters are 0 again.
C19_Witness ==
    /\ steps = 2 /\ pc = "loop" /\ move # None
    /\ states_visited_per_depth[0] = 2
    /\ LastSearch.total_nodes > 1
    /\ SumTo(states_visited_per_depth, depth) > LastSearch.total_nodes
    /\ total_nodes = 0 /\ non_leaf_nodes = 0

(***************************************************************************)
(* The claim about the notation, checked under SpecNotation.               *)
(***************************************************************************)
\* C12: for every pair of squares (from, to) with coordinates in 0..4,
\* parse_input(get_readable_move((from, to))) = (from, to); the text names
\* column 0..4 by A..E and row 4..0 by rank 1..5.
C12_NotationRoundTrip ==
    /\ pc \in {"readable", "parsed"} =>
          /\ Len(typed) = 5
          /\ move = <<<<4, 0>>, <<0, 4>>>> => typed = <<"A", "1", " ", "E", "5">>
          /\ move = <<<<1, 1>>, <<2, 1>>>> => typed = <<"B", "4", " ", "B", "3">>
    /\ pc = "parsed" => parsed = move

\* The move from E1 to A5 has been written and read back.
C12_Witness ==
    /\ pc = "parsed"
    /\ typed = <<"E", "1", " ", "A", "5">>
    /\ move = <<<<4, 4>>, <<0, 0>>>>
    /\ parsed = move

=============================================================================
